---- MODULE Spec2Model ----
(***************************************************************************)
(* A model of proc-diag (src/src/lib.rs): the `Error` builder and its      *)
(* `to_tokens` renderer.                                                   *)
(*                                                                         *)
(* Strings are sequences of one-character strings, source locations        *)
(* (proc_macro::Span) are opaque names, a proc_macro2::Span is a wrapper   *)
(* around one, and a TokenStream is a sequence of token trees, each a      *)
(* record with the fields of its kind.  The build is the one with the      *)
(* `proc-macro2` feature enabled (it only adds the ProcMacro2 variant);    *)
(* the `msrv-1-78` feature is a variable fixed at Init, and so is the host *)
(* environment (whether proc_macro::is_available()).                       *)
(*                                                                         *)
(* The caller modelled is the fluent one: Error::new(m), then any builder  *)
(* calls, then one or more to_tokens calls on the finished description.    *)
(* A pair of equal locations converts to the same SpanPair as the single   *)
(* location does, so the pairs the caller passes are the unequal ones.     *)
(***************************************************************************)
EXTENDS Integers, Sequences, FiniteSets, TLC

VARIABLES
    err,        \* the Error value: message, label, notes, span
    tokens,     \* the caller's TokenStream handed to to_tokens
    available,  \* proc_macro::is_available() in this host environment
    msrv_1_78,  \* cfg(feature = "msrv-1-78") of this build
    panicked,   \* a call has panicked; the program unwinds and stops
    calls,      \* history: the arguments the builder methods were called with
    renders     \* history: one record per to_tokens call that returned

vars == <<err, tokens, available, msrv_1_78, panicked, calls, renders>>

----------------------------------------------------------------------------
(* Bounds and input domains *)

MaxNotes == 2
MaxRenders == 2

\* Text inputs: plain text, and text that needs escaping in a literal.
Strings == { <<"a">>, <<"\"", "\\", "n">> }

\* Locations of the macro input, and the call sites Span::call_site() can name.
UserSpans == {"startA", "endB"}
CallSites == {"call1", "call2"}

----------------------------------------------------------------------------
(* Option<T> as a sequence of length 0 or 1 *)

None == <<>>
Some(x) == <<x>>

\* Option::unwrap_or
unwrap_or(opt, default) == IF opt = None THEN default ELSE opt[1]

----------------------------------------------------------------------------
(* Tokens: proc_macro::{Ident, Punct, Literal, Group} *)

Ident(name, span) ==
    [kind |-> "Ident", text |-> name, span |-> span]

\* Punct::new gives the token the call-site location.
Punct(ch, spacing, call_site) ==
    [kind |-> "Punct", text |-> ch, spacing |-> spacing, span |-> call_site]

\* macro punct!: Punct::new($token, Spacing::Joint)
punct(ch, call_site) == Punct(ch, "Joint", call_site)

\* Group::new gives the group the call-site location.
Group(delimiter, stream, call_site) ==
    [kind |-> "Group", delimiter |-> delimiter, stream |-> stream, span |-> call_site]

\* Punct::set_span / Group::set_span
set_span(tt, span) == [tt EXCEPT !.span = span]

\* The escape of one character inside a string literal.
EscapeChar(c) ==
    CASE c = "\"" -> <<"\\", "\"">>
      [] c = "\\" -> <<"\\", "\\">>
      [] c = "\n" -> <<"\\", "n">>
      [] OTHER    -> <<c>>

RECURSIVE Escape(_)
Escape(s) == IF s = <<>> THEN <<>> ELSE EscapeChar(Head(s)) \o Escape(Tail(s))

\* Literal::string: the text, escaped, between double quotes.
LiteralString(s, call_site) ==
    [kind |-> "Literal", lit |-> <<"\"">> \o Escape(s) \o <<"\"">>, span |-> call_site]

----------------------------------------------------------------------------
(* SpanPair and its conversions *)

\* A proc_macro2::Span names a location; inside a macro it wraps the compiler's
\* span for it, which is what unwrap hands back (to_tokens unwraps only there).
Span2(loc) == [inner |-> loc]

\* proc_macro2::Span::unwrap
Span2Unwrap(span2) == span2.inner

\* impl From<proc_macro::Span> for SpanPair
FromSpan(span) == [variant |-> "Native", start |-> span, end |-> span]

\* impl From<(proc_macro::Span, proc_macro::Span)> for SpanPair
FromSpans(s, e) == [variant |-> "Native", start |-> s, end |-> e]

\* impl From<proc_macro2::Span> for SpanPair
FromSpan2(span2) == [variant |-> "ProcMacro2", start |-> span2, end |-> span2]

\* impl From<(proc_macro2::Span, proc_macro2::Span)> for SpanPair
FromSpans2(s2, e2) == [variant |-> "ProcMacro2", start |-> s2, end |-> e2]

\* SpanPair::start_native
start_native(pair, is_available) ==
    IF pair.variant = "Native" THEN Some(pair.start)
    ELSE IF is_available THEN Some(Span2Unwrap(pair.start)) ELSE None

\* Faulty variant: end_native answers with the start of the pair.
end_native_first(pair, is_available) ==
    IF pair.variant = "Native" THEN Some(pair.start)
    ELSE IF is_available THEN Some(Span2Unwrap(pair.start)) ELSE None

\* SpanPair::end_native
end_native(pair, is_available) ==
    IF pair.variant = "Native" THEN Some(pair.end)
    ELSE IF is_available THEN Some(Span2Unwrap(pair.end)) ELSE None

----------------------------------------------------------------------------
(* Error: construction and accumulation *)

\* Error::new
new(message) == [message |-> message, label |-> None, notes |-> <<>>, span |-> None]

\* Faulty variant: a label once set is kept.
label_first_wins(self, text) ==
    IF self.label = None THEN [self EXCEPT !.label = Some(text)] ELSE self

\* Error::label
label(self, text) == [self EXCEPT !.label = Some(text)]

\* Faulty variant: a note is put before the earlier ones.
note_prepend(self, text) == [self EXCEPT !.notes = <<text>> \o @]

\* Error::note
note(self, text) == [self EXCEPT !.notes = Append(@, text)]

\* Error::span, after `span.into()`
span(self, pair) == [self EXCEPT !.span = Some(pair)]

----------------------------------------------------------------------------
(* Error::to_tokens *)

\* Span::call_site.  The proc_macro crate is usable only while a procedural
\* macro runs: outside of one (where is_available() is false) its functions
\* panic, and this is the first of them to_tokens calls.  None stands for
\* that panic.
Span_call_site(is_available, site) == IF is_available THEN Some(site) ELSE None

\* macro ident!: Ident::new(stringify!($name), call_site)
ident(name, call_site) == Ident(name, call_site)

\* Faulty variant: the fallback is Span::mixed_site(), not the call site.
start_span_mixed_site(self, call_site, is_available) ==
    unwrap_or(IF self.span = None THEN None
              ELSE start_native(self.span[1], is_available),
              "mixed_site")

\* let start_span = self.span.and_then(|pair| pair.start_native()).unwrap_or(call_site)
start_span(self, call_site, is_available) ==
    unwrap_or(IF self.span = None THEN None
              ELSE start_native(self.span[1], is_available),
              call_site)

\* let end_span = self.span.and_then(|pair| pair.end_native()).unwrap_or(call_site)
end_span(self, call_site, is_available) ==
    unwrap_or(IF self.span = None THEN None
              ELSE end_native(self.span[1], is_available),
              call_site)

\* One `, key = "value"` run of the customization.
entry(key, value, call_site) ==
    << punct(",", call_site), ident(key, call_site), punct("=", call_site),
       LiteralString(value, call_site) >>

RECURSIVE note_entries(_, _)
\* for note in &self.notes { ts.extend(...) }
note_entries(notes, call_site) ==
    IF notes = <<>> THEN <<>>
    ELSE entry("note", Head(notes), call_site) \o note_entries(Tail(notes), call_site)

\* Faulty variant: the label entry comes after the notes.
customization_label_last(self, call_site) ==
    << ident("message", call_site), punct("=", call_site),
       LiteralString(self.message, call_site) >>
    \o note_entries(self.notes, call_site)
    \o (IF self.label # None THEN entry("label", self.label[1], call_site) ELSE <<>>)

\* let customization = { ... }
customization(self, call_site) ==
    << ident("message", call_site), punct("=", call_site),
       LiteralString(self.message, call_site) >>
    \o (IF self.label # None THEN entry("label", self.label[1], call_site) ELSE <<>>)
    \o note_entries(self.notes, call_site)

\* #[diagnostic::on_unimplemented(<customization>)] trait DiagnosticHack {}
trait_decl(self, call_site) ==
    << punct("#", call_site),
       Group("Bracket",
             << ident("diagnostic", call_site), punct(":", call_site),
                punct(":", call_site), ident("on_unimplemented", call_site),
                Group("Parenthesis", customization(self, call_site), call_site) >>,
             call_site),
       ident("trait", call_site),
       ident("DiagnosticHack", call_site),
       Group("Brace", <<>>, call_site) >>

\* Faulty variant: the cfg is lost and every build emits the attribute.
do_not_recommend_always(msrv, call_site) ==
    << punct("#", call_site),
       Group("Bracket",
             << ident("diagnostic", call_site), punct(":", call_site),
                punct(":", call_site), ident("do_not_recommend", call_site) >>,
             call_site) >>

\* #[cfg(not(feature = "msrv-1-78"))] inner_ts.extend(#[diagnostic::do_not_recommend])
do_not_recommend(msrv, call_site) ==
    IF msrv THEN <<>>
    ELSE << punct("#", call_site),
            Group("Bracket",
                  << ident("diagnostic", call_site), punct(":", call_site),
                     punct(":", call_site), ident("do_not_recommend", call_site) >>,
                  call_site) >>

\* impl DiagnosticHack for ::core::convert::Infallible {}
\* fn diagnostic_hack<T: DiagnosticHack>() {}
\* diagnostic_hack::<* const ()>();
impl_fn_call(start, end, call_site) ==
    << ident("impl", call_site),
       ident("DiagnosticHack", call_site),
       ident("for", call_site),
       punct(":", call_site), punct(":", call_site),
       ident("core", call_site),
       punct(":", call_site), punct(":", call_site),
       ident("convert", call_site),
       punct(":", call_site), punct(":", call_site),
       ident("Infallible", call_site),
       Group("Brace", <<>>, call_site),
       ident("fn", call_site),
       ident("diagnostic_hack", call_site),
       punct("<", call_site),
       ident("T", call_site),
       punct(":", call_site),
       ident("DiagnosticHack", call_site),
       punct(">", call_site),
       Group("Parenthesis", <<>>, call_site),
       Group("Brace", <<>>, call_site),
       ident("diagnostic_hack", call_site),
       punct(":", call_site), punct(":", call_site),
       punct("<", call_site),
       set_span(punct("*", call_site), start),
       ident("const", call_site),
       set_span(Group("Parenthesis", <<>>, call_site), end),
       punct(">", call_site),
       Group("Parenthesis", <<>>, call_site),
       punct(";", call_site) >>

\* Faulty variant: the attribute is emitted ahead of the trait declaration.
inner_ts_attr_on_trait(self, call_site, msrv, is_available) ==
    do_not_recommend(msrv, call_site)
    \o trait_decl(self, call_site)
    \o impl_fn_call(start_span(self, call_site, is_available),
                    end_span(self, call_site, is_available), call_site)

\* inner_ts: the trait, the attribute the build adds, then the impl, fn and call
inner_ts(self, call_site, msrv, is_available) ==
    trait_decl(self, call_site)
    \o do_not_recommend(msrv, call_site)
    \o impl_fn_call(start_span(self, call_site, is_available),
                    end_span(self, call_site, is_available), call_site)

\* Faulty variant: the fragment is appended without the brace group around it.
to_tokens_unwrapped(self, out, site, msrv, is_available) ==
    LET cs == Span_call_site(is_available, site) IN
    IF cs = None THEN [panic |-> TRUE, tokens |-> out]
    ELSE [panic |-> FALSE,
          tokens |-> out \o inner_ts(self, cs[1], msrv, is_available)]

\* Error::to_tokens(&self, tokens): `site` is the call site of the environment.
\* The result is the stream after the call, or a panic with the stream as it was.
to_tokens(self, out, site, msrv, is_available) ==
    LET cs == Span_call_site(is_available, site) IN
    IF cs = None THEN [panic |-> TRUE, tokens |-> out]
    ELSE [panic |-> FALSE,
          tokens |-> out \o << Group("Brace",
                                     inner_ts(self, cs[1], msrv, is_available),
                                     cs[1]) >>]

----------------------------------------------------------------------------
(* The state machine *)

\* proc_macro::Span values exist only inside a macro.
NativeSpans(is_available) == IF is_available THEN UserSpans ELSE {}

\* The history of builder calls: the distinct label arguments (most recent
\* last), every note argument in call order, and the argument of the last
\* span call.
NoCalls == [labels |-> <<>>, notes |-> <<>>, span |-> None]

Init ==
    /\ available \in BOOLEAN
    /\ msrv_1_78 \in BOOLEAN
    /\ \E m \in Strings : err = new(m)
    /\ tokens = <<>>
    /\ panicked = FALSE
    /\ calls = NoCalls
    /\ renders = <<>>

Building == ~panicked /\ renders = <<>>

\* err = err.label(text)
Label(text) ==
    /\ Building
    /\ err' = label(err, text)
    /\ calls' = [calls EXCEPT !.labels =
                    IF text \in {@[i] : i \in 1..Len(@)}
                    THEN SelectSeq(@, LAMBDA x : x # text) \o <<text>>
                    ELSE Append(@, text)]
    /\ UNCHANGED <<tokens, available, msrv_1_78, panicked, renders>>

\* err = err.note(text)
Note(text) ==
    /\ Building
    /\ Len(err.notes) < MaxNotes
    /\ err' = note(err, text)
    /\ calls' = [calls EXCEPT !.notes = Append(@, text)]
    /\ UNCHANGED <<tokens, available, msrv_1_78, panicked, renders>>

\* err = err.span(s) with s: proc_macro::Span
SpanNative(s) ==
    /\ Building
    /\ err' = span(err, FromSpan(s))
    /\ calls' = [calls EXCEPT !.span =
                    Some([form |-> "single", provenance |-> "native", a |-> s, b |-> s])]
    /\ UNCHANGED <<tokens, available, msrv_1_78, panicked, renders>>

\* err = err.span((s, e)) with s, e: proc_macro::Span
SpanNativePair(s, e) ==
    /\ Building
    /\ err' = span(err, FromSpans(s, e))
    /\ calls' = [calls EXCEPT !.span =
                    Some([form |-> "pair", provenance |-> "native", a |-> s, b |-> e])]
    /\ UNCHANGED <<tokens, available, msrv_1_78, panicked, renders>>

\* err = err.span(s) with s: proc_macro2::Span
SpanProcMacro2(s) ==
    /\ Building
    /\ err' = span(err, FromSpan2(Span2(s)))
    /\ calls' = [calls EXCEPT !.span =
                    Some([form |-> "single", provenance |-> "proc_macro2", a |-> s, b |-> s])]
    /\ UNCHANGED <<tokens, available, msrv_1_78, panicked, renders>>

\* err = err.span((s, e)) with s, e: proc_macro2::Span
SpanProcMacro2Pair(s, e) ==
    /\ Building
    /\ err' = span(err, FromSpans2(Span2(s), Span2(e)))
    /\ calls' = [calls EXCEPT !.span =
                    Some([form |-> "pair", provenance |-> "proc_macro2", a |-> s, b |-> e])]
    /\ UNCHANGED <<tokens, available, msrv_1_78, panicked, renders>>

\* Faulty variant: rendering takes the notes out of the description.
RenderDraining(site) ==
    /\ ~panicked
    /\ Len(renders) < MaxRenders
    /\ LET r == to_tokens(err, tokens, site, msrv_1_78, available) IN
       /\ panicked' = r.panic
       /\ tokens' = r.tokens
       /\ renders' = IF r.panic THEN renders
                     ELSE Append(renders, [self |-> err, call_site |-> site,
                                           at |-> Len(tokens), calls |-> calls])
       /\ err' = IF r.panic THEN err ELSE [err EXCEPT !.notes = <<>>]
    /\ UNCHANGED <<available, msrv_1_78, calls>>

\* err.to_tokens(&mut tokens), called where Span::call_site() is `site`
Render(site) ==
    /\ ~panicked
    /\ Len(renders) < MaxRenders
    /\ LET r == to_tokens(err, tokens, site, msrv_1_78, available) IN
       /\ panicked' = r.panic
       /\ tokens' = r.tokens
       /\ renders' = IF r.panic THEN renders
                     ELSE Append(renders, [self |-> err, call_site |-> site,
                                           at |-> Len(tokens), calls |-> calls])
    /\ UNCHANGED <<err, available, msrv_1_78, calls>>

Next ==
    \/ \E text \in Strings : Label(text)
    \/ \E text \in Strings : Note(text)
    \/ \E s \in NativeSpans(available) : SpanNative(s)
    \/ \E s, e \in NativeSpans(available) : s # e /\ SpanNativePair(s, e)
    \/ \E s \in UserSpans : SpanProcMacro2(s)
    \/ \E s, e \in UserSpans : s # e /\ SpanProcMacro2Pair(s, e)
    \/ \E site \in CallSites : Render(site)

Spec == Init /\ [][Next]_vars

----------------------------------------------------------------------------
(* Reading an emitted fragment back *)

Last(seq) == seq[Len(seq)]

\* The token tree the i-th returned to_tokens call left in the stream, which
\* held renders[i].at tokens when the call was made.
Emitted(i) == tokens[renders[i].at + 1]

IsPunct(tt, ch) == tt.kind = "Punct" /\ tt.text = ch
IsIdent(tt, name) == tt.kind = "Ident" /\ tt.text = name
IsGroup(tt, delimiter) == tt.kind = "Group" /\ tt.delimiter = delimiter

\* The positions in ts of the bracket groups of `#[diagnostic::<name> ...]`.
Attributes(ts, name) ==
    { i \in 2..Len(ts) :
        /\ IsPunct(ts[i - 1], "#")
        /\ IsGroup(ts[i], "Bracket")
        /\ Len(ts[i].stream) >= 4
        /\ IsIdent(ts[i].stream[1], "diagnostic")
        /\ IsPunct(ts[i].stream[2], ":")
        /\ IsPunct(ts[i].stream[3], ":")
        /\ IsIdent(ts[i].stream[4], name) }

\* The item an attribute at position i is attached to: the first identifier
\* after it (an attribute is a `#` and a group, an item starts with a keyword).
Target(ts, i) ==
    LET after == { j \in (i + 1)..Len(ts) : ts[j].kind = "Ident" } IN
    IF after = {} THEN 0 ELSE CHOOSE j \in after : \A k \in after : j <= k

\* The argument list of the on_unimplemented attribute of a fragment.
Payload(ts) ==
    LET i == CHOOSE a \in Attributes(ts, "on_unimplemented") : TRUE IN
    ts[i].stream[5].stream

HasPayload(ts) ==
    /\ Cardinality(Attributes(ts, "on_unimplemented")) = 1
    /\ LET i == CHOOSE a \in Attributes(ts, "on_unimplemented") : TRUE IN
       /\ Len(ts[i].stream) = 5
       /\ IsGroup(ts[i].stream[5], "Parenthesis")

\* key = literal, key = literal, ...
WellFormedPayload(p) ==
    /\ Len(p) % 4 = 3
    /\ \A i \in 1..Len(p) :
        CASE i % 4 = 1 -> p[i].kind = "Ident"
          [] i % 4 = 2 -> IsPunct(p[i], "=")
          [] i % 4 = 3 -> p[i].kind = "Literal"
          [] OTHER     -> IsPunct(p[i], ",")

RECURSIVE Unescape(_)
\* The text a string literal's body denotes; "?" marks what is no valid body.
Unescape(s) ==
    IF s = <<>> THEN <<>>
    ELSE IF Head(s) = "\\"
         THEN IF Len(s) < 2 THEN <<"?">>
              ELSE (CASE s[2] = "\"" -> <<"\"">>
                      [] s[2] = "\\" -> <<"\\">>
                      [] s[2] = "n"  -> <<"\n">>
                      [] OTHER       -> <<"?">>) \o Unescape(Tail(Tail(s)))
         ELSE IF Head(s) = "\"" THEN <<"?">>
         ELSE <<Head(s)>> \o Unescape(Tail(s))

Unquote(lit) ==
    IF Len(lit) >= 2 /\ lit[1] = "\"" /\ lit[Len(lit)] = "\""
    THEN Unescape(SubSeq(lit, 2, Len(lit) - 1))
    ELSE <<"?">>

\* The entries of a well-formed payload, in order.
Entries(p) ==
    [k \in 1..((Len(p) + 1) \div 4) |->
        [key |-> p[4 * k - 3].text, value |-> Unquote(p[4 * k - 1].lit)]]

EntriesOf(i) == Entries(Payload(Emitted(i).stream))

\* The values of the entries with a given key, in order.
Values(entries, key) ==
    LET keyed == SelectSeq(entries, LAMBDA e : e.key = key) IN
    [k \in 1..Len(keyed) |-> keyed[k].value]

\* The positions of `diagnostic_hack :: <`, the start of the call's type arguments.
Turbofish(ts) ==
    { i \in 4..Len(ts) :
        /\ IsPunct(ts[i], "<")
        /\ IsPunct(ts[i - 1], ":")
        /\ IsPunct(ts[i - 2], ":")
        /\ IsIdent(ts[i - 3], "diagnostic_hack") }

\* The call has one type-argument clause `< first ... () >`: its first token
\* and the empty group that ends it are the two anchors.
HasAnchors(ts) ==
    /\ Cardinality(Turbofish(ts)) = 1
    /\ LET i == CHOOSE t \in Turbofish(ts) : TRUE IN
       /\ Len(ts) >= i + 4
       /\ IsGroup(ts[i + 3], "Parenthesis")
       /\ ts[i + 3].stream = <<>>
       /\ IsPunct(ts[i + 4], ">")

StartAnchor(ts) == ts[(CHOOSE t \in Turbofish(ts) : TRUE) + 1]
EndAnchor(ts) == ts[(CHOOSE t \in Turbofish(ts) : TRUE) + 3]

RECURSIVE Mentions(_, _)
\* A stream holds the identifier `name`, at any depth.
Mentions(ts, name) ==
    \E i \in 1..Len(ts) :
        \/ IsIdent(ts[i], name)
        \/ ts[i].kind = "Group" /\ Mentions(ts[i].stream, name)

RECURSIVE WithoutDoNotRecommend(_)
\* A stream without its `#[diagnostic::do_not_recommend]` attributes.
WithoutDoNotRecommend(ts) ==
    LET at == Attributes(ts, "do_not_recommend") IN
    IF at = {} THEN ts
    ELSE LET a == CHOOSE x \in at : \A y \in at : x <= y IN
         SubSeq(ts, 1, a - 2) \o WithoutDoNotRecommend(SubSeq(ts, a + 1, Len(ts)))

RECURSIVE SameButCallSite(_, _, _, _)
\* Two token trees agree in kind, text, spacing, delimiter and content, and in
\* location except where each carries the call site of its own call.
SameButCallSite(t1, site1, t2, site2) ==
    /\ t1.kind = t2.kind
    /\ (t1.span = t2.span \/ (t1.span = site1 /\ t2.span = site2))
    /\ IF t1.kind = "Group"
       THEN /\ t1.delimiter = t2.delimiter
            /\ Len(t1.stream) = Len(t2.stream)
            /\ \A k \in 1..Len(t1.stream) :
                SameButCallSite(t1.stream[k], site1, t2.stream[k], site2)
       ELSE [t1 EXCEPT !.span = site1] = [t2 EXCEPT !.span = site1]

----------------------------------------------------------------------------
(* Claims *)

\* The entries the description asks for: message, label if set, notes in order.
ExpectedEntries(self) ==
    << [key |-> "message", value |-> self.message] >>
    \o (IF self.label = None THEN <<>>
        ELSE << [key |-> "label", value |-> self.label[1]] >>)
    \o [k \in 1..Len(self.notes) |-> [key |-> "note", value |-> self.notes[k]]]

\* C1: the payload inside the on_unimplemented attribute of every emitted
\* fragment is exactly `message = <message>`, then `label = <label>` iff a
\* label is set, then one `note = <note>` per note in insertion order, the
\* entries separated by commas and each value the literal of the text.
C1_PayloadExact ==
    \A i \in 1..Len(renders) :
        /\ HasPayload(Emitted(i).stream)
        /\ WellFormedPayload(Payload(Emitted(i).stream))
        /\ EntriesOf(i) = ExpectedEntries(renders[i].self)

C1_Witness ==
    \E i \in 1..Len(renders) :
        /\ renders[i].self.label # None
        /\ Len(renders[i].self.notes) = 2
        /\ renders[i].self.notes[1] # renders[i].self.notes[2]
        /\ renders[i].self.message = <<"\"", "\\", "n">>

\* C2: when the last span call gave a native pair (S, E), the first token of
\* the call's type-argument clause carries S and the empty group ending the
\* clause carries E; when it gave a single location L, both carry L.
C2_AnchorsFromLastSpan ==
    \A i \in 1..Len(renders) :
        renders[i].calls.span # None =>
            LET arg == renders[i].calls.span[1]
                frag == Emitted(i).stream
            IN /\ HasAnchors(frag)
               /\ (arg.form = "pair" /\ arg.provenance = "native") =>
                     /\ StartAnchor(frag).span = arg.a
                     /\ EndAnchor(frag).span = arg.b
               /\ arg.form = "single" =>
                     /\ StartAnchor(frag).span = arg.a
                     /\ EndAnchor(frag).span = arg.a

C2_Witness ==
    \E i \in 1..Len(renders) :
        /\ renders[i].calls.span # None
        /\ renders[i].calls.span[1].form = "pair"
        /\ renders[i].calls.span[1].provenance = "native"
        /\ renders[i].calls.span[1].a # renders[i].calls.span[1].b
        /\ StartAnchor(Emitted(i).stream).span # EndAnchor(Emitted(i).stream).span

\* C3: when span was never called, both anchor tokens carry the call-site
\* location of that to_tokens call.
C3_AnchorsDefaultToCallSite ==
    \A i \in 1..Len(renders) :
        renders[i].calls.span = None =>
            /\ HasAnchors(Emitted(i).stream)
            /\ StartAnchor(Emitted(i).stream).span = renders[i].call_site
            /\ EndAnchor(Emitted(i).stream).span = renders[i].call_site

C3_Witness ==
    \E i, j \in 1..Len(renders) :
        /\ renders[i].calls.span = None
        /\ renders[i].call_site # renders[j].call_site
        /\ StartAnchor(Emitted(i).stream).span # StartAnchor(Emitted(j).stream).span

\* C4: after label calls the payload holds exactly one `label` entry, with the
\* argument of the most recent label call, and no `label` entry with an
\* earlier argument.
C4_LabelLastWriteWins ==
    \A i \in 1..Len(renders) :
        renders[i].calls.labels # <<>> =>
            /\ HasPayload(Emitted(i).stream)
            /\ LET given == renders[i].calls.labels
                   shown == Values(EntriesOf(i), "label")
               IN /\ shown = << Last(given) >>
                  /\ \A k \in 1..(Len(given) - 1) :
                        \A n \in 1..Len(shown) : shown[n] # given[k]

C4_Witness ==
    \E i \in 1..Len(renders) :
        /\ Len(renders[i].calls.labels) = 2
        /\ Values(EntriesOf(i), "label") = << renders[i].calls.labels[2] >>

\* C5: the `note` entries of the payload are exactly the arguments of the note
\* calls in call order, none dropped, duplicates kept, whatever label and span
\* calls came between them.
C5_NotesAppendOnly ==
    \A i \in 1..Len(renders) :
        /\ HasPayload(Emitted(i).stream)
        /\ Values(EntriesOf(i), "note") = renders[i].calls.notes

C5_Witness ==
    \E i \in 1..Len(renders) :
        /\ Len(renders[i].calls.notes) = 2
        /\ renders[i].calls.notes[1] # renders[i].calls.notes[2]
        /\ renders[i].calls.labels # <<>>
        /\ renders[i].calls.span # None
        /\ Values(EntriesOf(i), "note") = renders[i].calls.notes

\* C6: with msrv-1-78 the fragment holds no diagnostic::do_not_recommend, without
\* it exactly one, and apart from that attribute the fragment is the one the
\* other build emits for the same description at the same call site.
C6_DoNotRecommendByMode ==
    \A i \in 1..Len(renders) :
        LET frag == Emitted(i).stream
            rest == WithoutDoNotRecommend(frag)
            other == to_tokens(renders[i].self, <<>>, renders[i].call_site,
                               ~msrv_1_78, available).tokens[1].stream
        IN /\ msrv_1_78 => ~Mentions(frag, "do_not_recommend")
           /\ ~msrv_1_78 =>
                /\ Cardinality(Attributes(frag, "do_not_recommend")) = 1
                /\ Len(rest) = Len(frag) - 2
           /\ ~Mentions(rest, "do_not_recommend")
           /\ rest = WithoutDoNotRecommend(other)

C6_Witness ==
    /\ \E i \in 1..Len(renders) :
        Cardinality(Attributes(Emitted(i).stream, "do_not_recommend")) = 1
    /\ ~msrv_1_78

\* C7: to_tokens never fails, in any host environment.
C7_RenderTotal == ~panicked

\* C8: to_tokens leaves the description as it was, and two calls on it emit
\* token trees that agree in everything but the locations that are each
\* call's own call site.
C8_RenderRepeatable ==
    \A i \in 1..Len(renders) : \A j \in i..Len(renders) :
        /\ renders[i].self = err
        /\ renders[j].self = err
        /\ SameButCallSite(Emitted(i), renders[i].call_site,
                           Emitted(j), renders[j].call_site)

C8_Witness ==
    /\ Len(renders) = 2
    /\ renders[1].call_site # renders[2].call_site
    /\ Emitted(1) # Emitted(2)
    /\ err.notes # <<>>
    /\ err.span # None

\* C9 as stated: the do_not_recommend attribute is on the declaration that
\* carries the on_unimplemented attribute, the trait.
C9_AttributeOnTrait ==
    \A i \in 1..Len(renders) :
        LET frag == Emitted(i).stream IN
        \A a \in Attributes(frag, "do_not_recommend") :
            \A u \in Attributes(frag, "on_unimplemented") :
                /\ Target(frag, a) = Target(frag, u)
                /\ IsIdent(frag[Target(frag, a)], "trait")

\* C9 amended: without msrv-1-78 the one do_not_recommend attribute is on the
\* item that follows the trait declaration, `impl DiagnosticHack for ...`,
\* and the on_unimplemented attribute alone is on the trait.
C9_AttributeOnImpl ==
    \A i \in 1..Len(renders) :
        ~msrv_1_78 =>
            LET frag == Emitted(i).stream IN
            /\ Cardinality(Attributes(frag, "do_not_recommend")) = 1
            /\ HasPayload(frag)
            /\ \A a \in Attributes(frag, "do_not_recommend") :
                /\ Target(frag, a) = a + 1
                /\ IsIdent(frag[a + 1], "impl")
                /\ IsIdent(frag[a + 2], "DiagnosticHack")
                /\ IsIdent(frag[a + 3], "for")
                /\ \A u \in Attributes(frag, "on_unimplemented") :
                    /\ IsIdent(frag[Target(frag, u)], "trait")
                    /\ Target(frag, u) < a

C9_Witness ==
    /\ ~msrv_1_78
    /\ \E i \in 1..Len(renders) :
        Attributes(Emitted(i).stream, "do_not_recommend") # {}

\* C10: each to_tokens call that returns has appended one token tree, a
\* brace-delimited group holding the whole fragment, after the tokens the
\* stream held, which stay as they were and where they were; n calls on the
\* description leave n such groups.
C10_AppendsOneGroup ==
    [][Len(renders') = Len(renders) + 1 =>
        /\ Len(tokens') = Len(tokens) + 1
        /\ SubSeq(tokens', 1, Len(tokens)) = tokens
        /\ IsGroup(Last(tokens'), "Brace")
        /\ HasPayload(Last(tokens').stream)
        /\ HasAnchors(Last(tokens').stream)
        /\ IsPunct(Last(Last(tokens').stream), ";")
        /\ Len(tokens') = Len(renders')
        /\ \A k \in 1..Len(tokens') : IsGroup(tokens'[k], "Brace")]_vars

C10_Witness ==
    /\ Len(renders) = 2
    /\ Len(tokens) = 2
    /\ renders[1].call_site = renders[2].call_site
    /\ tokens[1] = tokens[2]

====
